---------------------------- MODULE Spec2Model ----------------------------
(***************************************************************************)
(* A model of sqlalchemy_utils: the PostgreSQL composite type subsystem    *)
(* (types/pg_composite.py) and the JSON API query compiler (json_api.py).  *)
(*                                                                         *)
(* Three specifications share the module:                                  *)
(*   Spec      the composite registry and its DDL lifecycle                *)
(*   SpecTypes attribute access on composites and array decoding          *)
(*   SpecJson  JSONMapping construction and select                         *)
(*   SpecRace  threads declaring composite types concurrently              *)
(***************************************************************************)
EXTENDS Integers, Sequences, FiniteSets, TLC

VARIABLES
    registered_composites,  \* pg_composite.registered_composites: name -> instance (0: absent)
    instances,              \* every CompositeType instance constructed so far
    listeners,              \* the before_create / after_drop listeners are attached
    dbTypes,                \* the composite types that exist in the database
    casters,                \* name -> type handle register_composite bound to the name
    adapters,               \* the type handles register_adapter has an encoder for
    nextHandle,             \* the next fresh handle of psycopg2.extras.register_composite
    lastOp,                 \* the operation that ran last, its arguments and its outcome
    hist,                   \* history of executed statements (ghost)
    typeCall,               \* the last attribute access / array decoding and its result
    jsonState,              \* the JSONMapping under use and the last call made on it
    threads                 \* each thread's position in CompositeType.__init__

compositeVars == <<registered_composites, instances, listeners, dbTypes, casters,
                   adapters, nextHandle, lastOp, hist>>
vars == <<registered_composites, instances, listeners, dbTypes, casters,
          adapters, nextHandle, lastOp, hist, typeCall, jsonState, threads>>

----------------------------------------------------------------------------
(* Bounds *)

MaxInst == 3        \* CompositeType instances constructed
MaxHandle == 4      \* type handles the driver hands out
MaxCount == 2       \* cap of the statement counters of hist
MaxThreads == 2     \* threads constructing a CompositeType

(* Inputs *)

Names == {"money_type", "point_type"}

Targets == {"metadata_a", "metadata_b"}

\* sa.Column(name, type): isdecorator is isinstance(type, TypeDecorator)
MoneyColumns ==
    << [name |-> "currency", type |-> "CurrencyType", isdecorator |-> TRUE],
       [name |-> "amount", type |-> "Integer", isdecorator |-> FALSE] >>

PointColumns ==
    << [name |-> "x", type |-> "Integer", isdecorator |-> FALSE] >>

ColumnLists == {MoneyColumns, PointColumns}

\* the columns a model module declares a type with
DefaultColumns(name) == IF name = "money_type" THEN MoneyColumns ELSE PointColumns

\* the value of an attribute that was never assigned
NoHandle == 0

\* checkfirst as the caller passes it; "unset" takes the method's default
CheckArgs == {"unset", "False", "True"}

----------------------------------------------------------------------------
(* CompositeType *)

RegNames == {n \in Names : registered_composites[n] # 0}

HasTypeCls(inst) == inst.type_cls # NoHandle

NoOp ==
    [op |-> "none", name |-> "", checkfirst |-> "unset",
     present |-> FALSE, executed |-> {}, raised |-> "none", target |-> ""]

\* CompositeType.__init__(name, columns)
Declare(name, columns) ==
    LET known == registered_composites[name] # 0
        \* registered_composites[name].type_cls: an AttributeError when the
        \* registered instance never had type_cls assigned
        fails == known /\ ~HasTypeCls(instances[registered_composites[name]])
        new == [name |-> name, columns |-> columns,
                type_cls |-> IF known
                             THEN instances[registered_composites[name]].type_cls
                             ELSE NoHandle]
    IN
    /\ Len(instances) < MaxInst
    /\ instances' = IF fails THEN instances ELSE Append(instances, new)
    /\ registered_composites' =
           IF known THEN registered_composites
           ELSE [registered_composites EXCEPT ![name] = Len(instances) + 1]
    \* attach_composite_listeners()
    /\ listeners' = IF fails THEN listeners ELSE TRUE
    /\ lastOp' = IF fails
                 THEN [NoOp EXCEPT !.op = "init", !.name = name,
                                   !.raised = "AttributeError"]
                 ELSE [NoOp EXCEPT !.op = "init", !.name = name]
    /\ UNCHANGED hist
    /\ UNCHANGED <<dbTypes, casters, adapters, nextHandle>>

\* the default of checkfirst: CompositeType.create(bind=None, checkfirst=None)
CreateCheckfirst(arg) == IF arg = "unset" THEN "None" ELSE arg

\* the default of checkfirst: CompositeType.drop(bind=None, checkfirst=True)
DropCheckfirst(arg) == IF arg = "unset" THEN "True" ELSE arg

\* Python truth of a checkfirst value
Truthy(v) == v = "True"

\* bind.dialect.has_type(bind, self.name, schema=self.schema)
HasType(db, name) == name \in db

\* create that never asks the engine whether the type exists
ShouldCreateUnchecked(checkfirst, present) == TRUE

\* the condition of CompositeType.create
ShouldCreate(checkfirst, present) == ~Truthy(checkfirst) \/ ~present

\* drop that never asks the engine whether the type exists
ShouldDropUnchecked(checkfirst, present) == Truthy(checkfirst)

\* drop with the condition of create: unconditional unless checking is asked for
ShouldDropLikeCreate(checkfirst, present) == ~Truthy(checkfirst) \/ present

\* the condition of CompositeType.drop
ShouldDrop(checkfirst, present) == Truthy(checkfirst) /\ present

\* The state one call works on: the database, the instances, the driver's
\* registrations, the statements executed by the call and the exception raised.
CallState ==
    [db |-> dbTypes, insts |-> instances, casters |-> casters,
     adapters |-> adapters, next |-> nextHandle,
     created |-> {}, dropped |-> {}, raised |-> "none"]

\* CompositeType.create(bind, checkfirst): CREATE TYPE of a type that exists
\* is an error of the database, passed on unchanged
CreateStep(st, name, checkfirst) ==
    IF ShouldCreate(checkfirst, HasType(st.db, name))
    THEN IF name \in st.db
         THEN [st EXCEPT !.created = @ \cup {name}, !.raised = "ProgrammingError"]
         ELSE [st EXCEPT !.created = @ \cup {name}, !.db = @ \cup {name}]
    ELSE st

\* CompositeType.drop(bind, checkfirst): DROP TYPE of a type that is absent
\* is an error of the database
DropStep(st, name, checkfirst) ==
    IF ShouldDrop(checkfirst, HasType(st.db, name))
    THEN IF name \in st.db
         THEN [st EXCEPT !.dropped = @ \cup {name}, !.db = @ \ {name}]
         ELSE [st EXCEPT !.dropped = @ \cup {name}, !.raised = "ProgrammingError"]
    ELSE st

\* register_psycopg2_composite(dbapi_connection, composite): register_composite
\* looks the type up in the database (an error if absent) and makes a new type
\* handle; register_adapter binds the encoder to that handle
RegisterStep(st, i) ==
    LET name == st.insts[i].name IN
    IF name \notin st.db
    THEN [st EXCEPT !.raised = "ProgrammingError"]
    ELSE [st EXCEPT !.insts[i].type_cls = st.next,
                    !.casters[name] = st.next,
                    !.adapters = @ \cup {st.next},
                    !.next = @ + 1]

\* registered_composites.items(), in insertion order
RECURSIVE OrderedNames(_)
OrderedNames(S) ==
    IF S = {} THEN << >>
    ELSE LET n == CHOOSE x \in S :
                    \A y \in S : registered_composites[x] <= registered_composites[y]
         IN  <<n>> \o OrderedNames(S \ {n})

\* a hook scoped to the types the target's tables use
HookNamesOfTarget(target) ==
    OrderedNames({n \in RegNames :
                    n = IF target = "metadata_a" THEN "money_type" ELSE "point_type"})

\* the types a hook works on: the whole registry, whatever the target
HookNames(target) == OrderedNames(RegNames)

\* the loop of before_create; an exception ends it
RECURSIVE BeforeCreateLoop(_, _)
BeforeCreateLoop(names, st) ==
    IF names = << >> \/ st.raised # "none" THEN st
    ELSE LET s1 == CreateStep(st, Head(names), "True")
             s2 == IF s1.raised # "none" THEN s1
                   ELSE RegisterStep(s1, registered_composites[Head(names)])
         IN  BeforeCreateLoop(Tail(names), s2)

\* the loop of after_drop
RECURSIVE AfterDropLoop(_, _)
AfterDropLoop(names, st) ==
    IF names = << >> \/ st.raised # "none" THEN st
    ELSE AfterDropLoop(Tail(names), DropStep(st, Head(names), "True"))

Sat(c) == IF c < MaxCount THEN c + 1 ELSE MaxCount

\* the statement counters after a call that ended in st
HistAfter(st, opname) ==
    [hookCreates |-> [n \in Names |->
                    IF n \in st.dropped THEN 0
                    ELSE IF n \in st.created /\ opname = "before_create"
                         THEN Sat(hist.hookCreates[n])
                         ELSE hist.hookCreates[n]],
     hookRuns |-> IF st.dropped # {} THEN 0
                  ELSE IF opname = "before_create" THEN Sat(hist.hookRuns)
                  ELSE hist.hookRuns,
     declHookOnly |-> hist.declHookOnly /\ opname = "before_create"]

Commit(st, opname) ==
    /\ dbTypes' = st.db
    /\ instances' = st.insts
    /\ casters' = st.casters
    /\ adapters' = st.adapters
    /\ nextHandle' = st.next
    /\ hist' = HistAfter(st, opname)

\* before_create(target, connection)
BeforeCreate(target) ==
    /\ listeners
    /\ nextHandle + Cardinality(RegNames) - 1 <= MaxHandle
    /\ LET st == BeforeCreateLoop(HookNames(target), CallState) IN
       /\ Commit(st, "before_create")
       /\ lastOp' = [NoOp EXCEPT !.op = "before_create", !.target = target,
                                 !.executed = st.created, !.raised = st.raised]
    /\ UNCHANGED <<registered_composites, listeners>>

\* after_drop(target, connection)
AfterDrop(target) ==
    /\ listeners
    /\ LET st == AfterDropLoop(HookNames(target), CallState) IN
       /\ Commit(st, "after_drop")
       /\ lastOp' = [NoOp EXCEPT !.op = "after_drop", !.target = target,
                                 !.executed = st.dropped, !.raised = st.raised]
    /\ UNCHANGED <<registered_composites, listeners>>

\* instances[i].create(bind, checkfirst)
Create(i, arg) ==
    /\ i \in 1..Len(instances)
    /\ LET name == instances[i].name
           st == CreateStep(CallState, name, CreateCheckfirst(arg)) IN
       /\ Commit(st, "create")
       /\ lastOp' = [NoOp EXCEPT !.op = "create", !.name = name,
                                 !.checkfirst = arg,
                                 !.present = HasType(dbTypes, name),
                                 !.executed = st.created, !.raised = st.raised]
    /\ UNCHANGED <<registered_composites, listeners>>

\* instances[i].drop(bind, checkfirst)
Drop(i, arg) ==
    /\ i \in 1..Len(instances)
    /\ LET name == instances[i].name
           st == DropStep(CallState, name, DropCheckfirst(arg)) IN
       /\ Commit(st, "drop")
       /\ lastOp' = [NoOp EXCEPT !.op = "drop", !.name = name,
                                 !.checkfirst = arg,
                                 !.present = HasType(dbTypes, name),
                                 !.executed = st.dropped, !.raised = st.raised]
    /\ UNCHANGED <<registered_composites, listeners>>

\* remove_composite_listeners()
RemoveListeners ==
    /\ listeners
    /\ listeners' = FALSE
    /\ lastOp' = [NoOp EXCEPT !.op = "remove_listeners"]
    /\ hist' = [hist EXCEPT !.declHookOnly = FALSE]
    /\ UNCHANGED <<registered_composites, instances, dbTypes, casters, adapters,
                   nextHandle>>

----------------------------------------------------------------------------
(* CompositeType.__init__ run by several threads.  Nothing in the module    *)
(* takes a lock: a thread can be switched out between the membership test  *)
(* and the statement of the branch it chose.                               *)

Threads == 1..MaxThreads

Idle == [pc |-> "idle", name |-> "", inst |-> 0, saw |-> FALSE, order |-> 0]

ThreadInit == threads = [t \in Threads |-> Idle]

\* the threads that have stored their instance under the name
Writers(name) ==
    {u \in Threads : threads[u].name = name /\ threads[u].order > 0}

\* a store that leaves an entry another thread has made
WriteEntryKeepFirst(reg, name, i) ==
    IF reg[name] # 0 THEN reg ELSE [reg EXCEPT ![name] = i]

\* registered_composites[name] = self
WriteEntry(reg, name, i) == [reg EXCEPT ![name] = i]

\* SchemaType.__init__(self); self.name = name; self.columns = columns
InitBegin(t, name) ==
    /\ threads[t].pc = "idle"
    /\ Len(instances) < MaxInst
    /\ instances' = Append(instances, [name |-> name,
                                       columns |-> DefaultColumns(name),
                                       type_cls |-> NoHandle])
    /\ threads' = [threads EXCEPT ![t] = [Idle EXCEPT !.pc = "check",
                                                      !.name = name,
                                                      !.inst = Len(instances) + 1]]
    /\ UNCHANGED <<registered_composites, listeners, dbTypes, casters, adapters,
                   nextHandle, lastOp, hist, typeCall, jsonState>>

\* if name in registered_composites
InitCheck(t) ==
    /\ threads[t].pc = "check"
    /\ threads' = [threads EXCEPT
                      ![t].pc = "act",
                      ![t].saw = registered_composites[threads[t].name] # 0]
    /\ UNCHANGED <<compositeVars, typeCall, jsonState>>

\* the branch chosen by the test: self.type_cls =
\* registered_composites[name].type_cls, or registered_composites[name] = self
InitAct(t) ==
    LET name == threads[t].name
        entry == instances[registered_composites[name]]
    IN
    /\ threads[t].pc = "act"
    /\ IF threads[t].saw
       THEN /\ instances' = IF HasTypeCls(entry)
                            THEN [instances EXCEPT
                                     ![threads[t].inst].type_cls = entry.type_cls]
                            ELSE instances
            /\ threads' = [threads EXCEPT
                              ![t].pc = IF HasTypeCls(entry) THEN "attach"
                                        ELSE "AttributeError"]
            /\ UNCHANGED registered_composites
       ELSE /\ registered_composites' =
                   WriteEntry(registered_composites, name, threads[t].inst)
            /\ threads' = [threads EXCEPT
                              ![t].pc = "attach",
                              ![t].order = Cardinality(Writers(name)) + 1]
            /\ UNCHANGED instances
    /\ UNCHANGED <<listeners, dbTypes, casters, adapters, nextHandle, lastOp,
                   hist, typeCall, jsonState>>

\* attach_composite_listeners(): each listener is added unless sa.event
\* already contains it
InitAttach(t) ==
    /\ threads[t].pc = "attach"
    /\ listeners' = TRUE
    /\ threads' = [threads EXCEPT ![t].pc = "done"]
    /\ UNCHANGED <<registered_composites, instances, dbTypes, casters, adapters,
                   nextHandle, lastOp, hist, typeCall, jsonState>>

----------------------------------------------------------------------------
(* Attribute access on a composite-typed expression *)

FieldKeys == {"currency", "amount", "x", "missing"}

Exprs == {"account.balance"}

\* getattr(instance, attr) on a CompositeType instance: __init__ assigns name
\* and columns, register_psycopg2_composite assigns type_cls; nothing assigns
\* typemap
TypeAttr(inst, attr) ==
    CASE attr = "name" -> [has |-> TRUE, value |-> inst.name]
      [] attr = "columns" -> [has |-> TRUE, value |-> inst.columns]
      [] attr = "type_cls" /\ HasTypeCls(inst) -> [has |-> TRUE, value |-> inst.type_cls]
      [] OTHER -> [has |-> FALSE]

\* CompositeElement(base, field, type_) as _compile_pgelem renders it
CompositeElement(base, field, type_) ==
    [kind |-> "element", text |-> <<"(", base, ").", field>>, type |-> type_]

Raise(exc, args) == [kind |-> "raise", exc |-> exc, args |-> args]

\* CompositeType.comparator_factory.__getattr__(key), self.type being inst and
\* self.expr being expr
ComparatorGetattr(inst, expr, key) ==
    LET typemap == TypeAttr(inst, "typemap") IN
    IF ~typemap.has
    THEN Raise("AttributeError", <<"CompositeType", "typemap">>)
    ELSE IF key \notin DOMAIN typemap.value
         THEN Raise("KeyError", <<inst.name, key>>)
         ELSE CompositeElement(expr, key, typemap.value[key])

\* column.<key> on a column of type instances[i]
GetAttr(i, expr, key) ==
    /\ i \in 1..Len(instances)
    /\ typeCall' = [op |-> "getattr", inst |-> i, expr |-> expr, key |-> key,
                    result |-> ComparatorGetattr(instances[i], expr, key)]
    /\ UNCHANGED <<compositeVars, jsonState, threads>>

----------------------------------------------------------------------------
(* Array decoding *)

\* Python values: an int, a tuple (a composite row), a list, raw wire text
Val(tag, v, items) == [tag |-> tag, v |-> v, items |-> items]

PyInt(n) == Val("int", n, << >>)
PyNone == Val("None", 0, << >>)
PyList(items) == Val("list", 0, items)
PyTuple(items) == Val("tuple", 0, items)
PyText(chars) == Val("str", 0, chars)

MoneyRow == PyTuple(<<PyInt(1), PyInt(2)>>)

ArrayInputs ==
    { PyList(<< >>),
      PyList(<<PyInt(1), PyInt(2)>>),
      PyList(<<MoneyRow>>),
      PyList(<<MoneyRow, MoneyRow>>),
      PyList(<<PyList(<<PyInt(1)>>), PyList(<<PyInt(2)>>)>>),
      PyList(<<PyList(<<MoneyRow>>)>>),
      PyText(<<PyText(<< >>), PyText(<< >>)>>) }

ItemTypes == {"CompositeType", "Integer"}

\* item_type.python_type: CompositeType.python_type = tuple
PythonType(itemtype) == IF itemtype = "CompositeType" THEN "tuple" ELSE "int"

ItemProcs == {"None", "process"}

Dims == {"None", "1", "2"}

DimMinusOne(dim) == CASE dim = "None" -> "None" [] dim = "2" -> "1" [] OTHER -> "0"

\* itemproc(x): the item type's result processor
ApplyItemProc(itemproc, x) ==
    IF itemproc = "None" THEN x ELSE Val("processed", x.v, x.items)

RECURSIVE MapItems(_, _, _)
\* ARRAY._proc_array(arr, itemproc, dim, list) of the plain array type
PlainProcArray(arr, itemproc, dim) ==
    IF arr.tag \notin {"list", "tuple", "str"}
    THEN Val("TypeError", 0, << >>)     \* iteration over a value that is no sequence
    ELSE
    IF dim = "1" \/ (dim = "None" /\ (arr.items = << >>
                                     \/ arr.items[1].tag \notin {"list", "tuple"}))
    THEN PyList([k \in 1..Len(arr.items) |-> ApplyItemProc(itemproc, arr.items[k])])
    ELSE PyList(MapItems(arr.items, itemproc, DimMinusOne(dim)))

MapItems(items, itemproc, dim) ==
    IF items = << >> THEN << >>
    ELSE <<PlainProcArray(Head(items), itemproc, dim)>>
         \o MapItems(Tail(items), itemproc, dim)

\* CompositeArray._proc_array(arr, itemproc, dim, collection): the call of
\* ARRAY._proc_array is made and its value dropped; the method ends without
\* a return statement
CompositeProcArray(itemtype, arr, itemproc, dim) ==
    IF dim = "None" /\ PythonType(itemtype) \in {"list", "tuple"}
    THEN arr
    ELSE PyNone

ProcArray(itemtype, arr, itemproc, dim) ==
    /\ typeCall' = [op |-> "proc_array", itemtype |-> itemtype, arr |-> arr,
                    itemproc |-> itemproc, dim |-> dim,
                    result |-> CompositeProcArray(itemtype, arr, itemproc, dim)]
    /\ UNCHANGED <<compositeVars, jsonState, threads>>

----------------------------------------------------------------------------
(* Writing a composite value and reading it back *)

PyStr(code) == Val("str", 0, <<code>>)

\* the Python-side value of a CurrencyType field
PyCurrency(code) == Val("Currency", 0, <<code>>)

\* the values a caller puts in a field of the declared type
FieldInputs(type) ==
    IF type = "CurrencyType" THEN {PyStr("USD"), PyCurrency("USD")}
    ELSE {PyInt(500)}

\* the rows a caller writes to a column of a composite with these columns
RowInputs(columns) ==
    {row \in [1..Len(columns) -> UNION {FieldInputs(columns[k].type) :
                                            k \in 1..Len(columns)}] :
        \A k \in 1..Len(columns) : row[k] \in FieldInputs(columns[k].type)}

Literal(sqltype, text) == [ok |-> TRUE, sqltype |-> sqltype, text |-> text]

NoLiteral == [ok |-> FALSE, sqltype |-> "", text |-> << >>]

\* adapt(x).getquoted(): the driver knows how to quote its own Python types,
\* and raises "can't adapt" for a class nobody registered an adapter for
Adapt(x) ==
    CASE x.tag = "int" -> Literal("integer", <<x.v>>)
      [] x.tag = "str" -> Literal("text", <<"'">> \o x.items \o <<"'">>)
      [] OTHER -> NoLiteral

\* the encode logic of a declared type: TypeDecorator.process_bind_param of
\* CurrencyType turns a Currency into its code; a plain type has none
ProcessBindParam(column, x) ==
    IF column.isdecorator /\ x.tag = "Currency" THEN PyStr(x.items[1]) ELSE x

\* the decode logic of a declared type: TypeDecorator.process_result_value of
\* CurrencyType turns a code into a Currency
ProcessResultValue(column, x) ==
    IF x.tag = "str" THEN PyCurrency(x.items[1]) ELSE x

\* ', '.join(values)
RECURSIVE JoinLiterals(_)
JoinLiterals(lits) ==
    IF lits = << >> THEN << >>
    ELSE IF Len(lits) = 1 THEN lits[1].text
    ELSE lits[1].text \o <<", ">> \o JoinLiterals(Tail(lits))

\* "(%s)::%s" % (', '.join(values), composite.name)
RenderComposite(lits, name) == <<"(">> \o JoinLiterals(lits) \o <<")::", name>>

\* adapt_composite(value) of register_psycopg2_composite: each field of the
\* value goes through the driver's adapt as it is
AdaptComposite(composite, value) ==
    LET lits == [k \in 1..Len(composite.columns) |-> Adapt(value[k])] IN
    IF \E k \in 1..Len(lits) : ~lits[k].ok
    THEN [raised |-> "ProgrammingError", lits |-> << >>, sql |-> << >>]
    ELSE [raised |-> "none", lits |-> lits,
          sql |-> RenderComposite(lits, composite.name)]

\* the database stores the literal in the attribute, and the driver's caster
\* of the composite hands the attribute back as a Python value of its type
CastField(lit) ==
    IF lit.sqltype = "integer" THEN PyInt(lit.text[1])
    ELSE PyStr(lit.text[2])

\* process(value) of CompositeType.result_processor
ResultProcess(inst, value) ==
    [k \in 1..Len(inst.columns) |->
        IF inst.columns[k].isdecorator
        THEN ProcessResultValue(inst.columns[k], value[k])
        ELSE value[k]]

\* a row of the composite written through the registered encoder and read
\* back through the caster and the result processor
WriteThenRead(inst, value) ==
    LET written == AdaptComposite(inst, value) IN
    IF written.raised # "none"
    THEN [raised |-> written.raised, sql |-> << >>, read |-> << >>]
    ELSE [raised |-> "none", sql |-> written.sql,
          read |-> ResultProcess(inst,
                      [k \in 1..Len(written.lits) |-> CastField(written.lits[k])])]

\* INSERT and SELECT of a row of a column of type instances[i], the registry
\* entry of its name, once before_create has created the type and registered
\* its caster and encoder
RoundTrip(i, value) ==
    /\ i \in 1..Len(instances)
    /\ registered_composites[instances[i].name] = i
    /\ instances[i].name \in dbTypes
    /\ HasTypeCls(instances[i])
    /\ instances[i].type_cls \in adapters
    /\ casters[instances[i].name] = instances[i].type_cls
    /\ value \in RowInputs(instances[i].columns)
    /\ typeCall' = [op |-> "roundtrip", inst |-> i, written |-> value,
                    result |-> WriteThenRead(instances[i], value)]
    /\ UNCHANGED <<compositeVars, jsonState, threads>>

----------------------------------------------------------------------------
(* json_api: the mapped entities the compiler is used on *)

Models == {"Article", "Comment", "NoId"}

Aliases == {"articles", "comments"}

Desc(name, kind, pk, fk, target, uselist) ==
    [name |-> name, kind |-> kind, pk |-> pk, fk |-> fk, target |-> target,
     uselist |-> uselist]

Column(name, pk, fk) == Desc(name, "column", pk, fk, "", FALSE)

Relationship(name, target, uselist) ==
    Desc(name, "relationship", FALSE, FALSE, target, uselist)

\* the descriptors of each mapped class, '__mapper__' among them
ClassDescriptors(model) ==
    CASE model = "Article" ->
            << Desc("__mapper__", "mapper", FALSE, FALSE, "", FALSE),
               Column("id", TRUE, FALSE),
               Column("name", FALSE, FALSE),
               Column("author_id", FALSE, TRUE),
               Relationship("comments", "Comment", TRUE) >>
      [] model = "Comment" ->
            << Desc("__mapper__", "mapper", FALSE, FALSE, "", FALSE),
               Column("id", TRUE, FALSE),
               Column("content", FALSE, FALSE),
               Column("article_id", FALSE, TRUE),
               Relationship("article", "Article", FALSE) >>
      [] OTHER ->
            << Desc("__mapper__", "mapper", FALSE, FALSE, "", FALSE),
               Column("name", FALSE, FALSE) >>

\* a row source: a mapped class (or an alias of it), or its table
FromClass(model) == [kind |-> "class", model |-> model]
FromTable(model) == [kind |-> "selectable", model |-> model]

IsColumnDesc(d) == d.kind = "column"
IsRelationshipDesc(d) == d.kind = "relationship"

\* get_all_descriptors(obj): every descriptor of a mapped class; one descriptor
\* for each column of a selectable
GetAllDescriptors(from_obj) ==
    IF from_obj.kind = "class"
    THEN ClassDescriptors(from_obj.model)
    ELSE SelectSeq(ClassDescriptors(from_obj.model), IsColumnDesc)

SeqRange(q) == {q[k] : k \in 1..Len(q)}

DescriptorKeys(from_obj) == {d.name : d \in SeqRange(GetAllDescriptors(from_obj))}

DescriptorNamed(from_obj, field) ==
    CHOOSE d \in SeqRange(GetAllDescriptors(from_obj)) : d.name = field

\* get_mapper(model).relationships
Relationships(model) == SelectSeq(ClassDescriptors(model), IsRelationshipDesc)

RelationshipKeys(model) == {d.name : d \in SeqRange(Relationships(model))}

RelationshipNamed(model, key) ==
    CHOOSE d \in SeqRange(Relationships(model)) : d.name = key

\* A path string is a sequence of tokens: "." or a run of other characters.
Dot == "."

\* path.split('.'): the runs between the dots, empty runs among them
RECURSIVE Split(_)
Split(path) ==
    IF \A k \in 1..Len(path) : path[k] # Dot THEN <<path>>
    ELSE LET d == CHOOSE k \in 1..Len(path) :
                      path[k] = Dot /\ \A j \in 1..(k - 1) : path[j] # Dot
         IN  <<SubSeq(path, 1, d - 1)>> \o Split(SubSeq(path, d + 1, Len(path)))

\* '.'.join(segments)
RECURSIVE Join(_)
Join(segments) ==
    IF segments = << >> THEN << >>
    ELSE IF Len(segments) = 1 THEN segments[1]
    ELSE segments[1] \o <<Dot>> \o Join(Tail(segments))

\* getattr(cls, path_name) for each segment in turn: the relationships along
\* the segments, or a failure when a segment names no relationship of the
\* model reached
RECURSIVE RelationshipsAlong(_, _)
RelationshipsAlong(segments, model) ==
    IF segments = << >> THEN [raised |-> "none", value |-> << >>]
    ELSE IF \/ Len(Head(segments)) # 1
            \/ Head(segments)[1] \notin RelationshipKeys(model)
         THEN [raised |-> "AttributeError", value |-> << >>]
         ELSE LET r == RelationshipNamed(model, Head(segments)[1])
                  rest == RelationshipsAlong(Tail(segments), r.target)
              IN  [raised |-> rest.raised, value |-> <<r>> \o rest.value]

\* path_to_relationships(path, model)
PathToRelationships(path, model) == RelationshipsAlong(Split(path), model)

----------------------------------------------------------------------------
(* JSONMapping *)

\* a mapping argument is a dict: its items in insertion order
MappingKeys(mapping) == {mapping[k].alias : k \in 1..Len(mapping)}

MappingValues(mapping) == {mapping[k].model : k \in 1..Len(mapping)}

MappingGet(mapping, alias) ==
    mapping[CHOOSE k \in 1..Len(mapping) : mapping[k].alias = alias].model

\* dict((value, key) for key, value in mapping.items()): a later item replaces
\* an earlier one with the same value
RECURSIVE InverseDict(_, _)
InverseDict(mapping, acc) ==
    IF mapping = << >> THEN acc
    ELSE InverseDict(Tail(mapping),
             [m \in DOMAIN acc \cup {Head(mapping).model} |->
                 IF m = Head(mapping).model THEN Head(mapping).alias ELSE acc[m]])

EmptyDict == [m \in {} |-> ""]

\* JSONMapping.validate_mapping(mapping)
ValidateMapping(mapping) ==
    IF \E m \in MappingValues(mapping) : "id" \notin DescriptorKeys(FromClass(m))
    THEN "IdPropertyNotFound"
    ELSE "none"

\* JSONMapping.__init__(mapping): inversed is None for an empty mapping
JSONMappingInit(mapping) ==
    LET raised == ValidateMapping(mapping) IN
    /\ jsonState' =
          IF raised # "none"
          THEN [op |-> "init", constructed |-> FALSE, argument |-> mapping,
                raised |-> raised]
          ELSE [op |-> "init", constructed |-> TRUE, argument |-> mapping,
                raised |-> "none",
                mapping |-> mapping,
                inversed |-> [isNone |-> mapping = << >>,
                              dict |-> InverseDict(mapping, EmptyDict)]]
    /\ UNCHANGED <<compositeVars, typeCall, threads>>

\* the fields argument: given is FALSE for None; dict maps an alias to the
\* list of field names wanted
NoFields == [given |-> FALSE, dict |-> [a \in {} |-> << >>]]

\* fields after "if fields is None: fields = {}"
FieldsDict(fields) == IF fields.given THEN fields.dict ELSE NoFields.dict

Ok(value) == [raised |-> "none", value |-> value]

Failed(exc) == [raised |-> exc]

\* an exception raised in r is passed on, else F goes on with r's value
Then(r, F(_)) == IF r.raised # "none" THEN r ELSE F(r.value)

\* the first exception of two steps run one after the other
FirstError(a, b) == IF a # "none" THEN a ELSE b

\* r, unless the step before it raised
Unless(raised, r) == IF raised # "none" THEN Failed(raised) ELSE r

\* JSONMapping.validate_model(model) and the lookup of get_model_alias
GetModelAlias(js, model) ==
    IF js.inversed.isNone THEN Failed("TypeError")     \* model not in None
    ELSE IF model \notin DOMAIN js.inversed.dict THEN Failed("UnknownModel")
    ELSE Ok(js.inversed.dict[model])

\* JSONMapping.validate_field_keys(fields)
ValidateFieldKeys(js, fields) ==
    IF /\ fields.given
       /\ DOMAIN fields.dict # {}
       /\ DOMAIN fields.dict \ MappingKeys(js.mapping) # {}
    THEN "UnknownFieldKey"
    ELSE "none"

\* get_descriptor_columns and JSONMapping.validate_column on one descriptor
ValidateDescriptor(d) ==
    IF d.kind # "column" THEN "TypeError"       \* no InstrumentedAttribute, Column, ...
    ELSE IF d.fk THEN "InvalidField"
    ELSE IF d.pk THEN "InvalidField"
    ELSE "none"

\* JSONMapping.validate_fields(model, fields, from_obj)
RECURSIVE ValidateFields(_, _)
ValidateFields(names, from_obj) ==
    IF names = << >> THEN "none"
    ELSE IF Head(names) \notin DescriptorKeys(from_obj) THEN "UnknownField"
    ELSE FirstError(ValidateDescriptor(DescriptorNamed(from_obj, Head(names))),
                    ValidateFields(Tail(names), from_obj))

\* the filter of JSONMapping.get_all_fields
IsEligibleField(d) ==
    /\ d.name # "__mapper__"
    /\ ~IsRelationshipDesc(d)
    /\ ~(d.fk \/ d.pk)

NamesOf(descs) == [k \in 1..Len(descs) |-> descs[k].name]

\* JSONMapping.get_all_fields(from_obj)
GetAllFields(from_obj) == NamesOf(SelectSeq(GetAllDescriptors(from_obj), IsEligibleField))

\* the named fields that are no relationship, validated
ValidatedFields(model_fields, from_obj) ==
    Unless(ValidateFields(model_fields, from_obj), Ok(model_fields))

\* JSONMapping.get_model_fields(model, fields, from_obj)
GetModelFields(js, model, fields, from_obj) ==
    Then(GetModelAlias(js, model), LAMBDA model_key :
        IF DOMAIN fields = {} \/ model_key \notin DOMAIN fields
        THEN Ok(GetAllFields(from_obj))
        ELSE ValidatedFields(
                 SelectSeq(fields[model_key],
                           LAMBDA f : f \notin RelationshipKeys(model)),
                 from_obj))

\* JSONMapping.build_relationship for each relationship: the identifier of
\* the related class needs its alias
RECURSIVE BuildRelationshipList(_, _)
BuildRelationshipList(js, rels) ==
    IF rels = << >> THEN Ok(<< >>)
    ELSE Then(GetModelAlias(js, Head(rels).target), LAMBDA alias :
         Then(BuildRelationshipList(js, Tail(rels)), LAMBDA rest :
              Ok(<<Head(rels).name>> \o rest)))

\* the relationships named in a field list
NamedRelationships(model, names) ==
    [k \in 1..Len(names) |-> RelationshipNamed(model, names[k])]

\* JSONMapping.build_relationships(model, fields, from_obj)
BuildRelationships(js, model, fields) ==
    Then(GetModelAlias(js, model), LAMBDA model_alias :
        IF model_alias \notin DOMAIN fields
        THEN BuildRelationshipList(js, Relationships(model))
        ELSE BuildRelationshipList(js,
                 NamedRelationships(model,
                     SelectSeq(fields[model_alias],
                               LAMBDA f : f \in RelationshipKeys(model)))))

\* JSONMapping.build_attrs_and_relationships(model, fields, from_obj): the
\* 'attributes' and 'relationships' members of a resource object
BuildAttrsAndRelationships(js, model, fields, from_obj) ==
    Then(GetModelFields(js, model, fields, from_obj), LAMBDA attrs :
    Then(BuildRelationships(js, model, fields), LAMBDA rels :
         Ok([attributes |-> attrs, relationships |-> rels])))

NoMembers == [attributes |-> << >>, relationships |-> << >>]

\* a resource object: the identifier and the members
Resource(type, members) ==
    [type |-> type, attributes |-> members.attributes,
     relationships |-> members.relationships]

\* JSONMapping.build_data(model, fields, include, from_obj)
BuildData(js, model, fields, from_obj) ==
    Then(GetModelAlias(js, model), LAMBDA model_alias :
    Then(BuildAttrsAndRelationships(js, model, fields, from_obj), LAMBDA members :
         Ok(Resource(model_alias, members))))

\* JSONMapping.build_single_included_fields(alias, fields)
BuildSingleIncludedFields(js, leaf, fields) ==
    Then(GetModelAlias(js, leaf), LAMBDA cls_key :
        IF cls_key \in DOMAIN fields
        THEN Then(BuildAttrsAndRelationships(js, leaf, fields, FromTable(leaf)),
                  LAMBDA members : Ok(Resource(cls_key, members)))
        ELSE Ok(Resource(cls_key, NoMembers)))

\* relationships[-1].mapper.class_
LeafModel(relationships) == relationships[Len(relationships)].target

\* JSONMapping.build_single_included(model, fields, path, from_obj)
BuildSingleIncluded(js, model, fields, path) ==
    Then(PathToRelationships(path, model), LAMBDA relationships :
    Then(BuildSingleIncludedFields(js, LeafModel(relationships), fields),
         LAMBDA resource :
         Ok([path |-> path, model |-> LeafModel(relationships),
             resource |-> resource,
             excludesRoot |-> LeafModel(relationships) = model])))

\* expansion that keeps the requested path only
SubpathsWhole(path) == <<path>>

\* subpaths(path): the first i + 1 segments joined, for each i in
\* range(len(path.split('.')))
Subpaths(path) ==
    [i \in 1..Len(Split(path)) |-> Join(SubSeq(Split(path), 1, i))]

RECURSIVE Flatten(_)
Flatten(seqs) == IF seqs = << >> THEN << >> ELSE Head(seqs) \o Flatten(Tail(seqs))

RECURSIVE BuildSelects(_, _, _, _)
BuildSelects(js, model, fields, paths) ==
    IF paths = << >> THEN Ok(<< >>)
    ELSE Then(BuildSingleIncluded(js, model, fields, Head(paths)), LAMBDA one :
         Then(BuildSelects(js, model, fields, Tail(paths)), LAMBDA rest :
              Ok(<<one>> \o rest)))

\* the include argument: given is FALSE for None
IncludeTruthy(include) == include.given /\ include.paths # << >>

\* JSONMapping.build_included(model, fields, include, from_obj): empty when no
\* include is asked for, else the 'included' key and the aggregate of the
\* union of one select for each subpath of each path
BuildIncluded(js, model, fields, include) ==
    IF IncludeTruthy(include)
    THEN Then(BuildSelects(js, model, fields,
                  Flatten([k \in 1..Len(include.paths) |->
                              Subpaths(include.paths[k])])),
              LAMBDA selects : Ok([key |-> TRUE, selects |-> selects]))
    ELSE Ok([key |-> FALSE, selects |-> << >>])

\* the keys of empty_args in JSONMapping.select
EmptyArgs(include) ==
    IF IncludeTruthy(include) THEN {"data", "included"} ELSE {"data"}

\* JSONMapping.select(model, fields, include, from_obj=None): the query built,
\* or the exception raised
SelectQuery(js, model, fieldsArg, include) ==
    Unless(ValidateFieldKeys(js, fieldsArg),
        Then(BuildData(js, model, FieldsDict(fieldsArg), FromClass(model)),
             LAMBDA data :
        Then(BuildIncluded(js, model, FieldsDict(fieldsArg), include),
             LAMBDA included :
             Ok([data |-> data,
                 hasIncluded |-> included.key,
                 selects |-> included.selects,
                 empty_args |-> EmptyArgs(include)]))))

\* the record of a select call and its outcome r
SelectCall(js, model, fieldsArg, include, r) ==
    IF r.raised # "none"
    THEN [op |-> "select", constructed |-> TRUE,
          mapping |-> js.mapping, inversed |-> js.inversed,
          model |-> model, fields |-> fieldsArg, include |-> include,
          raised |-> r.raised]
    ELSE [op |-> "select", constructed |-> TRUE,
          mapping |-> js.mapping, inversed |-> js.inversed,
          model |-> model, fields |-> fieldsArg, include |-> include,
          raised |-> "none", query |-> r.value]

\* JSONMapping(mapping).select(model, fields, include).  select reads mapping
\* and inversed and changes neither, so a call's outcome does not depend on
\* the calls before it: a behaviour follows one call on each mapping.
Select(model, fieldsArg, include) ==
    /\ jsonState.op = "init"
    /\ jsonState.constructed
    /\ jsonState' = SelectCall(jsonState, model, fieldsArg, include,
                               SelectQuery(jsonState, model, fieldsArg, include))
    /\ UNCHANGED <<compositeVars, typeCall, threads>>

----------------------------------------------------------------------------
(* The database evaluating the query select built *)

JsonArray(items) == [tag |-> "array", items |-> items]
JsonNull == [tag |-> "null", items |-> {}]
JsonAbsent == [tag |-> "absent", items |-> {}]

\* array_agg over a set of rows: NULL when there is no row
ArrayAgg(items) == IF items = {} THEN JsonNull ELSE JsonArray(items)

\* the row of one resource
ResourceRow(resource, id) ==
    [type |-> resource.type, id |-> id, attributes |-> resource.attributes,
     relationships |-> resource.relationships]

\* the rows of the union of the included selects: each select finds the rows
\* 1..related of its leaf model; a select whose leaf model is the root model
\* leaves out the ids of the root rows
IncludedRows(query, rootIds, related) ==
    UNION { { ResourceRow(query.selects[k].resource, id) :
                id \in IF query.selects[k].excludesRoot
                       THEN (1..related) \ rootIds
                       ELSE 1..related }
            : k \in 1..Len(query.selects) }

\* json_build_object(*args) for the row id of from_obj: 'data' is the
\* aggregate over the one-row subquery main_json, 'included' the aggregate
\* over the ordered union
RowObject(query, rootIds, id, related) ==
    [kind |-> "document",
     data |-> ArrayAgg({ResourceRow(query.data, id)}),
     included |-> IF query.hasIncluded
                  THEN ArrayAgg(IncludedRows(query, rootIds, related))
                  ELSE JsonAbsent]

\* json_build_object(*empty_args)
EmptyObject(query) ==
    [kind |-> "document",
     data |-> JsonArray({}),
     included |-> IF "included" \in query.empty_args THEN JsonArray({})
                  ELSE JsonAbsent]

\* coalesce((select json_build_object(*args) from from_obj), empty object):
\* the scalar subquery is NULL over no row, the row's value over one row, and
\* an error of the database over more than one row.  array_agg is called with
\* a second argument, []: the engine either knows no such function or
\* aggregates its first argument.
Evaluate(query, rows, related, engine) ==
    IF query.hasIncluded /\ engine = "no_such_function"
    THEN [kind |-> "error", error |-> "UndefinedFunction"]
    ELSE IF rows = 0 THEN EmptyObject(query)
    ELSE IF rows = 1 THEN RowObject(query, 1..rows, 1, related)
    ELSE [kind |-> "error", error |-> "CardinalityViolation"]

Engines == {"aggregates", "no_such_function"}

\* the caller executes the query select returned
Execute(rows, related, engine) ==
    /\ jsonState.op = "select"
    /\ jsonState.raised = "none"
    /\ jsonState' =
          [op |-> "execute", constructed |-> TRUE,
           mapping |-> jsonState.mapping, inversed |-> jsonState.inversed,
           model |-> jsonState.model, fields |-> jsonState.fields,
           include |-> jsonState.include, raised |-> "none",
           query |-> jsonState.query,
           rows |-> rows, related |-> related,
           document |-> Evaluate(jsonState.query, rows, related, engine)]
    /\ UNCHANGED <<compositeVars, typeCall, threads>>

----------------------------------------------------------------------------
TypeInit == typeCall = [op |-> "none"]

JsonInit == jsonState = [op |-> "none"]

Init ==
    /\ registered_composites = [n \in Names |-> 0]
    /\ instances = << >>
    /\ listeners = FALSE
    /\ dbTypes = {}
    /\ casters = [n \in Names |-> NoHandle]
    /\ adapters = {}
    /\ nextHandle = 1
    /\ lastOp = NoOp
    /\ hist = [hookCreates |-> [n \in Names |-> 0],
               hookRuns |-> 0,
               declHookOnly |-> TRUE]
    /\ TypeInit
    /\ JsonInit
    /\ ThreadInit

Next ==
    \/ \E name \in Names :
          Declare(name, DefaultColumns(name)) /\ UNCHANGED <<typeCall, jsonState, threads>>
    \/ \E target \in Targets : BeforeCreate(target) /\ UNCHANGED <<typeCall, jsonState, threads>>
    \/ \E target \in Targets : AfterDrop(target) /\ UNCHANGED <<typeCall, jsonState, threads>>
    \/ \E i \in 1..MaxInst, arg \in CheckArgs :
          Create(i, arg) /\ UNCHANGED <<typeCall, jsonState, threads>>
    \/ \E i \in 1..MaxInst, arg \in CheckArgs :
          Drop(i, arg) /\ UNCHANGED <<typeCall, jsonState, threads>>
    \/ RemoveListeners /\ UNCHANGED <<typeCall, jsonState, threads>>

Spec == Init /\ [][Next]_vars

\* attribute access and array decoding on the declared types
NextTypes ==
    \/ \E name \in Names, columns \in ColumnLists :
          Declare(name, columns) /\ UNCHANGED <<typeCall, jsonState, threads>>
    \/ \E target \in Targets : BeforeCreate(target) /\ UNCHANGED <<typeCall, jsonState, threads>>
    \/ \E i \in 1..MaxInst, expr \in Exprs, key \in FieldKeys : GetAttr(i, expr, key)
    \/ \E i \in 1..MaxInst :
          \E value \in RowInputs(MoneyColumns) \cup RowInputs(PointColumns) :
              RoundTrip(i, value)
    \/ \E itemtype \in ItemTypes, arr \in ArrayInputs, itemproc \in ItemProcs,
          dim \in Dims : ProcArray(itemtype, arr, itemproc, dim)

SpecTypes == Init /\ [][NextTypes]_vars

\* threads declaring types while the before_create hook runs in between
NextRace ==
    \/ \E t \in Threads, name \in Names : InitBegin(t, name)
    \/ \E t \in Threads : InitCheck(t)
    \/ \E t \in Threads : InitAct(t)
    \/ \E t \in Threads : InitAttach(t)
    \/ \E target \in Targets : BeforeCreate(target) /\ UNCHANGED <<typeCall, jsonState, threads>>

SpecRace == Init /\ [][NextRace]_vars

MappingArgs ==
    { << >> }
    \cup { <<[alias |-> a, model |-> m]>> : a \in Aliases, m \in Models }
    \cup { <<[alias |-> a, model |-> m], [alias |-> b, model |-> n]>> :
              a \in Aliases, b \in Aliases, m \in Models, n \in Models }

\* a dict has each key once
IsDict(mapping) ==
    \A j, k \in 1..Len(mapping) : mapping[j].alias = mapping[k].alias => j = k

MaxRows == 2        \* rows of the root row source
MaxRelated == 1     \* rows each included select finds
MaxFieldKeys == 2   \* keys of a fields argument

FieldAliasKeys == Aliases \cup {"unknown_alias"}

FieldLists == { <<"name">>, <<"id">>, <<"nonexistent">>, <<"comments", "content">> }

FieldsArgs ==
    {NoFields}
    \cup { [given |-> TRUE, dict |-> d] :
              d \in UNION { [S -> FieldLists] :
                              S \in {T \in SUBSET FieldAliasKeys :
                                        Cardinality(T) <= MaxFieldKeys} } }

IncludeArgs ==
    { [given |-> FALSE, paths |-> << >>],
      [given |-> TRUE, paths |-> << >>],
      [given |-> TRUE, paths |-> << <<"comments">> >>],
      [given |-> TRUE, paths |-> << <<"comments", Dot, "article">> >>],
      [given |-> TRUE,
       paths |-> << <<"comments", Dot, "article", Dot, "comments">> >>],
      [given |-> TRUE, paths |-> << <<"article">>, <<"bogus">> >>] }

NextJson ==
    \/ \E mapping \in MappingArgs : IsDict(mapping) /\ JSONMappingInit(mapping)
    \/ \E model \in Models, fieldsArg \in FieldsArgs, include \in IncludeArgs :
          Select(model, fieldsArg, include)
    \/ \E rows \in 0..MaxRows, related \in 0..MaxRelated, engine \in Engines :
          Execute(rows, related, engine)

SpecJson == Init /\ [][NextJson]_vars

----------------------------------------------------------------------------
(* Properties of the composite registry and its DDL lifecycle (Spec) *)

\* the instance the registry holds for the name of instance i
RegistryEntryOf(i) == instances[registered_composites[instances[i].name]]

\* C1: in a run of declarations and before_create invocations only, no
\* declaration fails, once before_create has run every instance holds the type
\* handle of the registry entry of its name, and CREATE TYPE is executed at
\* most once for each name.
C1_SameHandleNoFailure ==
    hist.declHookOnly =>
        /\ (lastOp.op = "init" => lastOp.raised = "none")
        /\ (hist.hookRuns > 0 =>
               \A i \in 1..Len(instances) :
                   instances[i].type_cls = RegistryEntryOf(i).type_cls)
        /\ \A n \in Names : hist.hookCreates[n] <= 1

\* C2: a before_create invocation that follows another one with no drop in
\* between does not raise, and over the invocations CREATE TYPE was executed
\* at most once for each registered type.
C2_SecondHookSkips ==
    (lastOp.op = "before_create" /\ hist.hookRuns >= 2) =>
        /\ lastOp.raised = "none"
        /\ \A n \in RegNames : hist.hookCreates[n] <= 1

\* a second invocation that found the type present and executed nothing
C2_Witness ==
    /\ lastOp.op = "before_create"
    /\ hist.hookRuns >= 2
    /\ lastOp.executed = {}
    /\ \E n \in RegNames : hist.hookCreates[n] = 1

\* C3: after before_create every registered name exists in the database and
\* has its adapter registered; after after_drop no registered name exists in
\* the database; whatever the target.
C3_HooksCoverRegistry ==
    /\ (lastOp.op = "before_create" /\ lastOp.raised = "none") =>
           \A n \in RegNames :
               /\ n \in dbTypes
               /\ casters[n] # NoHandle
               /\ casters[n] \in adapters
               /\ instances[registered_composites[n]].type_cls = casters[n]
    /\ (lastOp.op = "after_drop" /\ lastOp.raised = "none") =>
           RegNames \cap dbTypes = {}

\* after_drop dropped both registered types, which before_create had created
\* and registered
C3_Witness ==
    /\ lastOp.op = "after_drop"
    /\ lastOp.executed = Names
    /\ RegNames = Names
    /\ \A n \in Names : casters[n] # NoHandle /\ hist.hookCreates[n] = 0

\* C4: create executes CREATE TYPE unconditionally when checkfirst is false or
\* unset and only for an absent type when it is true; drop with checking
\* requested (its default) executes DROP TYPE only for a present type.
C4_CheckFirst ==
    /\ lastOp.op = "create" =>
           /\ lastOp.executed \subseteq {lastOp.name}
           /\ (lastOp.checkfirst \in {"unset", "False"} => lastOp.executed = {lastOp.name})
           /\ (lastOp.checkfirst = "True" =>
                  (lastOp.executed = {lastOp.name} <=> ~lastOp.present))
    /\ (lastOp.op = "drop" /\ lastOp.checkfirst \in {"unset", "True"}) =>
           /\ lastOp.executed \subseteq {lastOp.name}
           /\ (lastOp.executed = {lastOp.name} <=> lastOp.present)

\* an unconditional create of a type that exists: the statement is executed
\* and the database refuses it
C4_Witness ==
    /\ lastOp.op = "create"
    /\ lastOp.checkfirst = "unset"
    /\ lastOp.present
    /\ lastOp.executed = {lastOp.name}
    /\ lastOp.raised = "ProgrammingError"

\* C14: drop called with checkfirst false executes no DROP TYPE, whether the
\* type is present or absent, and raises nothing; a drop executes DROP TYPE
\* exactly when checkfirst is true (given or by default) and the type is
\* present, and the database is as it was after every other drop.
C14_DropUncheckedIsNoOp ==
    lastOp.op = "drop" =>
        /\ (lastOp.checkfirst = "False" =>
               /\ lastOp.executed = {}
               /\ lastOp.raised = "none")
        /\ (lastOp.executed # {} <=>
               (lastOp.checkfirst # "False" /\ lastOp.present))
        /\ (lastOp.executed = {} => (lastOp.name \in dbTypes <=> lastOp.present))
        /\ (lastOp.executed # {} => lastOp.name \notin dbTypes)

\* drop(checkfirst=False) of a type that exists: nothing is executed and the
\* type is still there
C14_Witness ==
    /\ lastOp.op = "drop"
    /\ lastOp.checkfirst = "False"
    /\ lastOp.present
    /\ lastOp.executed = {}
    /\ lastOp.name \in dbTypes

----------------------------------------------------------------------------
(* Properties of attribute access and array decoding (SpecTypes) *)

\* the declared type of field key of inst, "" when key is not declared
DeclaredType(inst, key) ==
    LET ks == {k \in 1..Len(inst.columns) : inst.columns[k].name = key} IN
    IF ks = {} THEN "" ELSE inst.columns[CHOOSE k \in ks : TRUE].type

\* C5: access of a declared field yields the extraction (<expr>).<field> typed
\* with the field's declared type; access of an undeclared field raises a
\* KeyError that names the type and the field.
C5_FieldAccess ==
    typeCall.op = "getattr" =>
        LET inst == instances[typeCall.inst]
            key == typeCall.key
        IN  IF DeclaredType(inst, key) # ""
            THEN typeCall.result =
                     [kind |-> "element",
                      text |-> <<"(", typeCall.expr, ").", key>>,
                      type |-> DeclaredType(inst, key)]
            ELSE typeCall.result = [kind |-> "raise", exc |-> "KeyError",
                                    args |-> <<inst.name, key>>]

\* C6: CompositeArray decoding returns what the plain array type returns,
\* except that a host sequence the driver produced for an array of composites
\* (no dimension declared) is returned unchanged.
C6_ArrayDecoding ==
    typeCall.op = "proc_array" =>
        LET skipped == /\ typeCall.dim = "None"
                       /\ PythonType(typeCall.itemtype) \in {"list", "tuple"}
                       /\ typeCall.arr.tag \in {"list", "tuple"}
        IN  typeCall.result =
                IF skipped THEN typeCall.arr
                ELSE PlainProcArray(typeCall.arr, typeCall.itemproc, typeCall.dim)

----------------------------------------------------------------------------
(* Properties of JSONMapping (SpecJson) *)

HasIdDescriptor(model) ==
    \E k \in 1..Len(ClassDescriptors(model)) : ClassDescriptors(model)[k].name = "id"

\* field names a descriptor of the class that is backed by neither a primary
\* key nor a foreign key column
IsValidField(model, field) ==
    \E k \in 1..Len(ClassDescriptors(model)) :
        /\ ClassDescriptors(model)[k].name = field
        /\ ~ClassDescriptors(model)[k].pk
        /\ ~ClassDescriptors(model)[k].fk

\* C7: the document of a select that compiled has a data key holding an array,
\* empty over zero rows, and an included key, holding an array, exactly when
\* an include path was asked for.
C7_DocumentShape ==
    (jsonState.op = "execute" /\ jsonState.document.kind = "document") =>
        LET doc == jsonState.document
            asked == IncludeTruthy(jsonState.include)
        IN  /\ doc.data.tag = "array"
            /\ (jsonState.rows = 0 => doc.data = JsonArray({}))
            /\ (doc.included.tag # "absent" <=> asked)
            /\ (asked => doc.included.tag = "array")
            /\ (jsonState.rows = 0 /\ asked => doc.included = JsonArray({}))

\* no two aliases of the mapping name the same entity
IsInjective(mapping) ==
    \A j, k \in 1..Len(mapping) : mapping[j].model = mapping[k].model => j = k

\* C8 (stated for registries that map each entity once): select raises UnknownFieldKey when a key of fields is no registered
\* alias, and a select that returns a query was given only fields that name a
\* real descriptor of their key's model, backed by neither a primary key nor a
\* foreign key.
C8_WholeFieldsMapValidated ==
    (/\ jsonState.op = "select"
     /\ jsonState.fields.given
     /\ IsInjective(jsonState.mapping)) =>
        LET dict == jsonState.fields.dict IN
        /\ (DOMAIN dict \ MappingKeys(jsonState.mapping) # {} =>
               jsonState.raised = "UnknownFieldKey")
        /\ (jsonState.raised = "none" =>
               \A key \in DOMAIN dict : \A k \in 1..Len(dict[key]) :
                   IsValidField(MappingGet(jsonState.mapping, key), dict[key][k]))

\* C9: construction raises IdPropertyNotFound exactly when a mapped entity has
\* no id descriptor, and the maps of a constructed registry are inverses of
\* each other.
C9_MapsAreInverses ==
    jsonState.op = "init" =>
        /\ (jsonState.raised = "IdPropertyNotFound" <=>
               \E m \in MappingValues(jsonState.argument) : ~HasIdDescriptor(m))
        /\ (jsonState.constructed <=> jsonState.raised = "none")
        /\ (jsonState.constructed =>
               /\ \A a \in MappingKeys(jsonState.mapping) :
                     /\ ~jsonState.inversed.isNone
                     /\ MappingGet(jsonState.mapping, a) \in DOMAIN jsonState.inversed.dict
                     /\ jsonState.inversed.dict[MappingGet(jsonState.mapping, a)] = a
               /\ \A m \in MappingValues(jsonState.mapping) :
                     MappingGet(jsonState.mapping, jsonState.inversed.dict[m]) = m)

\* C10: an included resource carries the members the field rule of a root
\* resource gives its model: every eligible attribute and every relationship
\* when the model's alias is no key of fields, the named ones when it is.
C10_IncludedResourceIsFull ==
    (jsonState.op = "select" /\ jsonState.raised = "none") =>
        \A k \in 1..Len(jsonState.query.selects) :
            LET sel == jsonState.query.selects[k]
                dict == FieldsDict(jsonState.fields)
                alias == sel.resource.type
            IN  IF alias \notin DOMAIN dict
                THEN /\ sel.resource.attributes = GetAllFields(FromClass(sel.model))
                     /\ sel.resource.relationships = NamesOf(Relationships(sel.model))
                ELSE /\ sel.resource.attributes =
                            SelectSeq(dict[alias],
                                      LAMBDA f : f \notin RelationshipKeys(sel.model))
                     /\ sel.resource.relationships =
                            SelectSeq(dict[alias],
                                      LAMBDA f : f \in RelationshipKeys(sel.model))

\* q is p cut at the end of one of its dot-separated segments
IsSegmentPrefix(q, p) ==
    /\ Len(q) <= Len(p)
    /\ q = SubSeq(p, 1, Len(q))
    /\ (Len(q) = Len(p) \/ p[Len(q) + 1] = Dot)

SegmentPrefixes(p) ==
    {q \in {SubSeq(p, 1, n) : n \in 0..Len(p)} : IsSegmentPrefix(q, p)}

\* the prefixes of p, shortest first
RECURSIVE ShortestFirst(_)
ShortestFirst(S) ==
    IF S = {} THEN << >>
    ELSE LET q == CHOOSE x \in S : \A y \in S : Len(x) <= Len(y)
         IN  <<q>> \o ShortestFirst(S \ {q})

DotCount(p) == Cardinality({k \in 1..Len(p) : p[k] = Dot})

\* C11: every requested include path of n segments is expanded into its n
\* prefixes, shortest first and ending with the path itself; a select that
\* returns a query has built one subquery for each prefix of each requested
\* path, in order; and the executed document holds the rows each prefix's
\* subquery finds, those of the intermediate prefixes among them.
C11_PrefixesIncluded ==
    (jsonState.op \in {"select", "execute"} /\ IncludeTruthy(jsonState.include)) =>
        LET paths == jsonState.include.paths IN
        /\ \A k \in 1..Len(paths) :
              /\ Subpaths(paths[k]) = ShortestFirst(SegmentPrefixes(paths[k]))
              /\ Len(Subpaths(paths[k])) = DotCount(paths[k]) + 1
              /\ Subpaths(paths[k])[Len(Subpaths(paths[k]))] = paths[k]
        /\ jsonState.raised = "none" =>
              LET selects == jsonState.query.selects IN
              /\ [k \in 1..Len(selects) |-> selects[k].path]
                    = Flatten([k \in 1..Len(paths) |->
                                  ShortestFirst(SegmentPrefixes(paths[k]))])
              /\ (jsonState.op = "execute" /\ jsonState.document.kind = "document"
                    /\ jsonState.rows > 0) =>
                    \A k \in 1..Len(selects) :
                        ~selects[k].excludesRoot =>
                            \A id \in 1..jsonState.related :
                                ResourceRow(selects[k].resource, id)
                                    \in jsonState.document.included.items

\* a path of three segments was requested alone, its three subqueries were
\* built, and the executed document includes rows
C11_Witness ==
    /\ jsonState.op = "execute"
    /\ jsonState.include.paths = << <<"comments", Dot, "article", Dot, "comments">> >>
    /\ Len(jsonState.query.selects) = 3
    /\ jsonState.query.selects[1].path = <<"comments">>
    /\ jsonState.document.kind = "document"
    /\ jsonState.document.included.tag = "array"
    /\ \E row \in jsonState.document.included.items : row.type = "comments"

----------------------------------------------------------------------------
(* Properties of the write and read path of a composite value (SpecTypes) *)

\* Python's == on field values: Currency.__eq__ also accepts the code as a str
PyEq(a, b) ==
    \/ a = b
    \/ /\ {a.tag, b.tag} = {"Currency", "str"}
       /\ a.items = b.items

\* C12: a composite value written and read back is equal in every field, the
\* literal written being (field1, field2, ...)::<type-name> with each field
\* encoded by its declared type, and the value read having each field decoded
\* by its declared type.
C12_RoundTrip ==
    typeCall.op = "roundtrip" =>
        LET inst == instances[typeCall.inst]
            value == typeCall.written
            res == typeCall.result
        IN  /\ res.raised = "none"
            /\ \A k \in 1..Len(inst.columns) : PyEq(res.read[k], value[k])
            /\ res.sql = RenderComposite(
                             [k \in 1..Len(inst.columns) |->
                                 Adapt(ProcessBindParam(inst.columns[k], value[k]))],
                             inst.name)

----------------------------------------------------------------------------
(* Properties of concurrent declarations (SpecRace) *)

\* C13: when two threads have both passed the membership test for a name that
\* was not registered and both have stored their instance, the later store has
\* replaced the earlier entry, and neither instance holds the type handle of
\* the other: the replaced instance is out of the registry, and a handle the
\* hooks give the later instance is never the one the earlier instance has.
C13_RaceReplacesEntry ==
    \A t, u \in Threads :
        (/\ threads[t].name = threads[u].name
         /\ 0 < threads[t].order
         /\ threads[t].order < threads[u].order) =>
            LET name == threads[t].name
                first == instances[threads[t].inst]
                later == instances[threads[u].inst]
            IN  /\ ~threads[t].saw /\ ~threads[u].saw
                /\ registered_composites[name] # threads[t].inst
                /\ (\A w \in Writers(name) : threads[w].order <= threads[u].order)
                      => registered_composites[name] = threads[u].inst
                /\ HasTypeCls(later) => later.type_cls # first.type_cls

\* two threads raced on one name, both finished, and before_create has since
\* given the surviving entry its handle
C13_Witness ==
    \E t, u \in Threads :
        /\ t # u
        /\ threads[t].name = threads[u].name
        /\ threads[t].order = 1 /\ threads[u].order = 2
        /\ threads[t].pc = "done" /\ threads[u].pc = "done"
        /\ registered_composites[threads[u].name] = threads[u].inst
        /\ HasTypeCls(instances[threads[u].inst])
        /\ ~HasTypeCls(instances[threads[t].inst])

=============================================================================
